---- MODULE Spec2Model ----
(***************************************************************************)
(* Model of src/app.py: a Streamlit light-novel drafting tool.  Every user *)
(* interaction reruns the whole script against st.session_state, so the    *)
(* state is the session state and every action is one script run with one  *)
(* widget event.                                                           *)
(*                                                                         *)
(* Texts are sequences of chunks (strings); string concatenation is \o,    *)
(* the empty text is << >>, and str.startswith(p) looks at the first       *)
(* chunk.  Python dicts are functions whose DOMAIN is the key set; the     *)
(* project store, whose insertion order the code reads, also carries its   *)
(* key order.                                                              *)
(***************************************************************************)
EXTENDS Integers, Sequences, FiniteSets, TLC

VARIABLES
    logged_in,                \* st.session_state.logged_in
    registered_username,      \* st.session_state.registered_username (None until sign-up)
    registered_password,      \* st.session_state.registered_password
    current_user,             \* st.session_state.current_user
    user_api_keys,            \* st.session_state.user_api_keys: user -> provider id -> key
    selected_model_provider,  \* st.session_state.selected_model_provider
    api_usage,                \* st.session_state.api_usage (the usage ledger)
    current_call_token_info,  \* st.session_state.current_call_token_info
    projects,                 \* st.session_state.projects (ordered dict)
    current_project,          \* st.session_state.current_project
    modified_synopsis,        \* st.session_state.modified_synopsis (<< >> when absent)
    editing_glossary_term,    \* st.session_state.editing_glossary_term (None when absent)
    editing_character,        \* st.session_state.editing_character (None when absent)
    exported,                 \* the document of the last export download, with the store it was made from
    uploaded_file,            \* history: the document of the last import and the project names it met
    pending_for,              \* history: the project that was active when modified_synopsis was set
    counted,                  \* history: the last text given to count_tokens alone, and its counts
    today,                    \* the wall clock's date, datetime.now().date()
    call,                     \* history: the call_generative_api invocation of the last script run
    run                       \* history: the last script run (event, fault, state at its start)

vars == <<logged_in, registered_username, registered_password, current_user,
          user_api_keys, selected_model_provider, api_usage,
          current_call_token_info, projects, current_project, modified_synopsis,
          editing_glossary_term, editing_character, exported, uploaded_file,
          pending_for, counted, today, call, run>>

-----------------------------------------------------------------------------
(* Bounds of the model *)

\* successful provider calls explored in the application specification
MaxCalls == 2
\* date changes explored
MaxDay == 1
\* ledger records explored in the ledger specification (beyond the history cap)
MaxRecords == 103
\* characters of the texts given to count_tokens alone (beyond the threshold
\* of 500 characters)
MaxChars == 520

-----------------------------------------------------------------------------
(* Python values *)

None == "None"
EmptyDict == [k \in {} |-> k]
EmptyText == << >>

\* bool(x) of a dict, a list or a text: empty is false
Truthy(v) == v # << >>
\* bool(x) of a plain string (a name, an API key); None is written ""
TruthyStr(v) == v # ""

\* d.get(k, default)
Get(d, k, default) == IF k \in DOMAIN d THEN d[k] ELSE default

Max(a, b) == IF a >= b THEN a ELSE b
Min(a, b) == IF a <= b THEN a ELSE b

\* dict with key k set to v (insert or overwrite)
DictSet(d, k, v) == (k :> v) @@ d
\* dict without key k
DictDel(d, k) == [x \in (DOMAIN d) \ {k} |-> d[x]]

\* list[-n:] of a Python list
LastN(s, n) == IF Len(s) <= n THEN s ELSE SubSeq(s, Len(s) - n + 1, Len(s))

-----------------------------------------------------------------------------
(* Text statistics read by count_tokens.  len: characters, wide: characters *)
(* with ord(c) > 127, words: matches of \b\w+\b.  The values are those of   *)
(* the source literals; chunk boundaries are taken as word boundaries.      *)
(* The Japanese literals of the source are written here in ASCII: "ERROR"   *)
(* is the three-character prefix U+30A8 U+30E9 U+30FC that the failure      *)
(* messages of call_generative_api start with and that the views test with  *)
(* startswith.                                                              *)

ChunkStats(c) ==
    CASE c = "theme_prompt" -> [len |-> 76, wide |-> 73, words |-> 6]
      [] c = "full_char_prompt" -> [len |-> 247, wide |-> 203, words |-> 35]
      [] c = "modification_prompt" -> [len |-> 255, wide |-> 217, words |-> 14]
      [] c = "diagnosis_prompt" -> [len |-> 551, wide |-> 443, words |-> 56]
      [] c = "isekai-fantasy" -> [len |-> 9, wide |-> 9, words |-> 1]
      [] c = "modern-fantasy" -> [len |-> 8, wide |-> 8, words |-> 1]
      [] c = "teen-male" -> [len |-> 5, wide |-> 5, words |-> 1]
      [] c = "all-ages" -> [len |-> 3, wide |-> 3, words |-> 1]
      [] c = "omakase" -> [len |-> 4, wide |-> 4, words |-> 1]
      [] c = "growth-and-friendship" -> [len |-> 8, wide |-> 8, words |-> 1]
      [] c = "a-dragon-dances" -> [len |-> 9, wide |-> 9, words |-> 1]
      [] c = "ERROR" -> [len |-> 3, wide |-> 3, words |-> 1]
      [] c = "Hiro" -> [len |-> 2, wide |-> 2, words |-> 1]
      [] c = "protagonist" -> [len |-> 3, wide |-> 3, words |-> 1]
      [] c = "request-of-300-characters" -> [len |-> 300, wide |-> 300, words |-> 6]
      [] c = "synopsis-of-300-characters" -> [len |-> 300, wide |-> 300, words |-> 4]
      [] c = "more-moving" -> [len |-> 7, wide |-> 7, words |-> 1]
      [] OTHER -> [len |-> 7, wide |-> 0, words |-> 1]

RECURSIVE TextStats(_)
TextStats(text) ==
    IF text = << >> THEN [len |-> 0, wide |-> 0, words |-> 0]
    ELSE LET h == ChunkStats(Head(text))
             t == TextStats(Tail(text))
         IN [len |-> h.len + t.len, wide |-> h.wide + t.wide, words |-> h.words + t.words]

\* text.startswith(prefix) for a one-chunk prefix
StartsWith(text, prefix) == text # << >> /\ Head(text) = prefix

-----------------------------------------------------------------------------
(* Utility functions *)

\* count_tokens whose estimate above 500 characters is len(text) // 10 alone
EstimateFromLengthOnly(s) ==
    LET estimated_tokens == (15 * s.wide + 13 * s.words) \div 10
    IN Max(1, IF s.len > 500 THEN s.len \div 10 ELSE estimated_tokens)

\* count_tokens: int(japanese_chars * 1.5 + english_words * 1.3), plus
\* len(text) // 10 above 500 characters, floored at 1
EstimateFrom(s) ==
    LET japanese_chars == s.wide
        english_words == s.words
        estimated_tokens == (15 * japanese_chars + 13 * english_words) \div 10
    IN Max(1, IF s.len > 500 THEN estimated_tokens + (s.len \div 10) ELSE estimated_tokens)

count_tokens(text) == EstimateFrom(TextStats(text))

(* count_tokens of a text given as its runs of characters of one class.     *)
(* A class says what count_tokens reads of a character: whether ord(c) is   *)
(* above 127 and whether \w matches it.  "kana" and "letter" are word       *)
(* characters, "wide-punct" (U+3002 and the like) and "space" are not.      *)
CharClasses == {"kana", "letter", "wide-punct", "space"}
\* ord(c) > 127
IsWide(class) == class \in {"kana", "wide-punct"}
\* \w matches c
IsWordChar(class) == class \in {"kana", "letter"}

\* len(text), the characters above 127 and the matches of \b\w+\b, which are
\* the maximal stretches of word characters; in_word says that the character
\* before the runs is a word character
RECURSIVE RunStats(_, _)
RunStats(runs, in_word) ==
    IF runs = << >> THEN [len |-> 0, wide |-> 0, words |-> 0]
    ELSE LET h == Head(runs)
             t == RunStats(Tail(runs), IsWordChar(h.class))
         IN [len |-> h.n + t.len,
             wide |-> (IF IsWide(h.class) THEN h.n ELSE 0) + t.wide,
             words |-> (IF IsWordChar(h.class) /\ ~in_word THEN 1 ELSE 0) + t.words]

count_tokens_of_runs(runs) == EstimateFrom(RunStats(runs, FALSE))

\* text + k characters of a class
AppendChars(runs, class, k) ==
    IF runs # << >> /\ runs[Len(runs)].class = class
    THEN [runs EXCEPT ![Len(runs)].n = @ + k]
    ELSE Append(runs, [class |-> class, n |-> k])

\* the texts counted alone grow by these numbers of characters and hold at
\* most this number of runs
AppendLengths == {5, 250}
MaxRuns == 2

\* the history keeps the most recent HistoryCap records
HistoryCap == 100

\* a faulty variant of log_api_usage that adds the prompt tokens only to the
\* lifetime counter
log_api_usage_prompt_only(usage, model_name, prompt_tokens, response_tokens, now) ==
    LET total_tokens == prompt_tokens + response_tokens
    IN [usage EXCEPT
          !.daily_requests = @ + 1,
          !.daily_tokens_used = @ + total_tokens,
          !.total_requests = @ + 1,
          !.total_tokens_used = @ + prompt_tokens,
          !.request_history =
              LastN(Append(@, [timestamp |-> now, model |-> model_name,
                               prompt_tokens |-> prompt_tokens,
                               response_tokens |-> response_tokens,
                               total_tokens |-> total_tokens]), HistoryCap)]

\* a faulty variant of log_api_usage that keeps the oldest records
log_api_usage_keep_oldest(usage, model_name, prompt_tokens, response_tokens, now) ==
    LET total_tokens == prompt_tokens + response_tokens
        appended == Append(usage.request_history,
                           [timestamp |-> now, model |-> model_name,
                            prompt_tokens |-> prompt_tokens,
                            response_tokens |-> response_tokens,
                            total_tokens |-> total_tokens])
    IN [usage EXCEPT
          !.daily_requests = @ + 1,
          !.daily_tokens_used = @ + total_tokens,
          !.total_requests = @ + 1,
          !.total_tokens_used = @ + total_tokens,
          !.request_history = IF Len(appended) > HistoryCap
                              THEN SubSeq(appended, 1, HistoryCap) ELSE appended]

\* log_api_usage(prompt, response, model_name, prompt_tokens, response_tokens)
\* on the ledger `usage`; prompt and response are not read by the code
log_api_usage(usage, model_name, prompt_tokens, response_tokens, now) ==
    LET total_tokens == prompt_tokens + response_tokens
        appended == Append(usage.request_history,
                           [timestamp |-> now, model |-> model_name,
                            prompt_tokens |-> prompt_tokens,
                            response_tokens |-> response_tokens,
                            total_tokens |-> total_tokens])
    IN [usage EXCEPT
          !.daily_requests = @ + 1,
          !.daily_tokens_used = @ + total_tokens,
          !.total_requests = @ + 1,
          !.total_tokens_used = @ + total_tokens,
          !.request_history = IF Len(appended) > HistoryCap
                              THEN LastN(appended, HistoryCap) ELSE appended]

get_model_name(provider) ==
    CASE provider = "Gemini" -> "gemini-2.0-flash"
      [] provider = "OpenAI" -> "gpt-4o-mini"
      [] provider = "Claude" -> "claude-3-haiku-20240307"
      [] OTHER -> ""

-----------------------------------------------------------------------------
(* analyze_synopsis_quality.  A synopsis is a sequence of pieces: the words *)
(* and marks the function looks for, the sentence end U+3002 ("MARU"),      *)
(* whitespace ("space") and runs of other characters ("filler-n", n         *)
(* characters that belong to no word or mark).  The Japanese literals are   *)
(* written in ASCII: "shikashi" is U+3057 U+304B U+3057, "FW?" is the       *)
(* full-width question mark U+FF1F, "FW!" the full-width exclamation mark   *)
(* U+FF01, "?" the ASCII question mark; "dragon" is the four-character      *)
(* katakana word.  No word arises across the border of two pieces.          *)

engaging_words ==
    <<"shikashi", "daga", "totsuzen", "tsuini", "hatashite", "nazenara",
      "soshite", "moshi", "odorokubekikotoni">>

genre_keywords == {"mahou", "isekai", "dragon", "bouken"}

\* len() of a piece
PieceLen(c) ==
    CASE c \in {"daga", "totsuzen", "moshi", "mahou", "bouken"} -> 2
      [] c \in {"shikashi", "tsuini", "soshite", "isekai"} -> 3
      [] c \in {"hatashite", "nazenara", "dragon"} -> 4
      [] c = "odorokubekikotoni" -> 8
      [] c = "filler-72" -> 72
      [] c = "filler-100" -> 100
      [] OTHER -> 1

\* len(synopsis)
RECURSIVE SynopsisLen(_)
SynopsisLen(synopsis) ==
    IF synopsis = << >> THEN 0
    ELSE PieceLen(Head(synopsis)) + SynopsisLen(Tail(synopsis))

\* `word in synopsis`
Contains(synopsis, word) == \E i \in 1..Len(synopsis) : synopsis[i] = word

\* synopsis.split(MARU), stripped, without the empty strings: the number of
\* segments that hold a character other than whitespace; `open` says that
\* the segment read so far holds one
RECURSIVE CountSentences(_, _)
CountSentences(synopsis, open) ==
    IF synopsis = << >> THEN (IF open THEN 1 ELSE 0)
    ELSE IF Head(synopsis) = "MARU"
    THEN (IF open THEN 1 ELSE 0) + CountSentences(Tail(synopsis), FALSE)
    ELSE CountSentences(Tail(synopsis), open \/ Head(synopsis) # "space")

\* for word in engaging_words: if word in synopsis: score += 5
ConnectorPoints(synopsis) ==
    5 * Cardinality({i \in 1..Len(engaging_words) :
                        Contains(synopsis, engaging_words[i])})

\* the score before `min(score, 100)`
SynopsisPoints(synopsis) ==
    LET n == SynopsisLen(synopsis)
        length == IF 200 <= n /\ n <= 400 THEN 30
                  ELSE IF 150 <= n /\ n <= 500 THEN 20 ELSE 10
        engaging == ConnectorPoints(synopsis)
        mark == IF Contains(synopsis, "?") \/ Contains(synopsis, "FW!") THEN 10 ELSE 0
        genre == IF \E keyword \in genre_keywords : Contains(synopsis, keyword)
                 THEN 15 ELSE 0
        sentences == CountSentences(synopsis, FALSE)
        rhythm == IF 3 <= sentences /\ sentences <= 6 THEN 20 ELSE 0
    IN length + engaging + mark + genre + rhythm

\* a faulty variant of analyze_synopsis_quality without the cap
analyze_synopsis_quality_uncapped(synopsis) == SynopsisPoints(synopsis)

analyze_synopsis_quality(synopsis) == Min(SynopsisPoints(synopsis), 100)

\* a faulty variant of DailyReset that also clears the lifetime counters
DailyResetLifetime(usage, current_date) ==
    IF usage.last_reset_date # current_date
    THEN [usage EXCEPT !.daily_requests = 0, !.daily_tokens_used = 0,
                       !.total_requests = 0, !.total_tokens_used = 0,
                       !.last_reset_date = current_date]
    ELSE usage

\* the module-level daily reset of the ledger
DailyReset(usage, current_date) ==
    IF usage.last_reset_date # current_date
    THEN [usage EXCEPT !.daily_requests = 0, !.daily_tokens_used = 0,
                       !.last_reset_date = current_date]
    ELSE usage

-----------------------------------------------------------------------------
(* The session state as one value, st.session_state, for the functions that *)
(* read and write it.                                                       *)

Session ==
    [logged_in |-> logged_in,
     registered_username |-> registered_username,
     registered_password |-> registered_password,
     current_user |-> current_user,
     user_api_keys |-> user_api_keys,
     selected_model_provider |-> selected_model_provider,
     api_usage |-> api_usage,
     current_call_token_info |-> current_call_token_info,
     projects |-> projects,
     current_project |-> current_project,
     modified_synopsis |-> modified_synopsis,
     editing_glossary_term |-> editing_glossary_term,
     editing_character |-> editing_character]

SessionFields ==
    {"logged_in", "registered_username", "registered_password", "current_user",
     "user_api_keys", "selected_model_provider", "api_usage",
     "current_call_token_info", "projects", "current_project", "modified_synopsis",
     "editing_glossary_term", "editing_character"}

\* the script run ends with the session state S
Commit(S) ==
    /\ logged_in' = S.logged_in
    /\ registered_username' = S.registered_username
    /\ registered_password' = S.registered_password
    /\ current_user' = S.current_user
    /\ user_api_keys' = S.user_api_keys
    /\ selected_model_provider' = S.selected_model_provider
    /\ api_usage' = S.api_usage
    /\ current_call_token_info' = S.current_call_token_info
    /\ projects' = S.projects
    /\ current_project' = S.current_project
    /\ modified_synopsis' = S.modified_synopsis
    /\ editing_glossary_term' = S.editing_glossary_term
    /\ editing_character' = S.editing_character

\* no call_generative_api invocation in this step
NoCall ==
    [invoked |-> FALSE, key_set |-> FALSE, provider |-> "", kind |-> "none",
     outbound |-> << >>, prompt |-> << >>, outcome |-> EmptyDict,
     ret |-> EmptyDict, before |-> EmptyDict, after |-> EmptyDict]

\* no document was downloaded or uploaded yet
NoDocument == [kind |-> "none", items |-> << >>]

\* the ordered dict st.session_state.projects
EmptyProjects == [keys |-> << >>, val |-> EmptyDict]

\* the session-state initialisation at the top of the script
Init ==
    /\ logged_in = FALSE
    /\ registered_username = None
    /\ registered_password = None
    /\ current_user = None
    /\ user_api_keys = EmptyDict
    /\ selected_model_provider = "Gemini"
    /\ today = 0
    /\ api_usage = [daily_requests |-> 0, daily_tokens_used |-> 0,
                    last_reset_date |-> 0,
                    total_requests |-> 0, total_tokens_used |-> 0,
                    request_history |-> << >>]
    /\ current_call_token_info = EmptyDict
    /\ projects = EmptyProjects
    /\ current_project = None
    /\ modified_synopsis = << >>
    /\ editing_glossary_term = None
    /\ editing_character = None
    /\ exported = [doc |-> NoDocument, origin |-> EmptyProjects]
    /\ uploaded_file = [doc |-> NoDocument, names |-> {}]
    /\ pending_for = None
    /\ counted = [text |-> << >>, tokens |-> 1, shorter |-> 1, same_class |-> FALSE]
    /\ call = NoCall
    /\ run = [event |-> "init", fault |-> "", message |-> "", view |-> "setup"]

-----------------------------------------------------------------------------
(* The environment: the date changes.                                       *)

Tick ==
    /\ today < MaxDay
    /\ today' = today + 1
    /\ call' = NoCall
    /\ run' = [event |-> "tick", fault |-> "", message |-> "", view |-> run.view]
    /\ UNCHANGED <<logged_in, registered_username, registered_password,
                   current_user, user_api_keys, selected_model_provider, api_usage,
                   current_call_token_info, projects, current_project,
                   modified_synopsis, editing_glossary_term, editing_character,
                   exported, uploaded_file, pending_for, counted>>

-----------------------------------------------------------------------------
(* The ledger on its own: records are logged, past the history cap.         *)

Providers == <<"Gemini", "OpenAI", "Claude">>
ProviderNames == {"Gemini", "OpenAI", "Claude"}

\* one provider response is recorded; the n-th record carries n prompt tokens
LedgerRecord ==
    /\ api_usage.total_requests < MaxRecords
    /\ LET n == api_usage.total_requests + 1
       IN \E provider \in {Providers[(n % 3) + 1]}, prompt_tokens \in {n},
             response_tokens \in {n % 2} :
            api_usage' = log_api_usage(api_usage, get_model_name(provider),
                                       prompt_tokens, response_tokens, today)
    /\ call' = NoCall
    /\ run' = [event |-> "log_api_usage", fault |-> "", message |-> "", view |-> run.view]
    /\ UNCHANGED <<logged_in, registered_username, registered_password,
                   current_user, user_api_keys, selected_model_provider,
                   current_call_token_info, projects, current_project,
                   modified_synopsis, editing_glossary_term, editing_character,
                   exported, uploaded_file, pending_for, counted, today>>

NextLedger == LedgerRecord

\* count_tokens is applied to a text and to the text with k more characters
\* of a class
CountLonger ==
    /\ \E class \in CharClasses, k \in AppendLengths :
         \E longer \in {AppendChars(counted.text, class, k)} :
            /\ Len(longer) <= MaxRuns
            /\ RunStats(longer, FALSE).len <= MaxChars
            /\ counted' = [text |-> longer,
                           tokens |-> count_tokens_of_runs(longer),
                           shorter |-> count_tokens_of_runs(counted.text),
                           same_class |-> Len(longer) = Len(counted.text)]
    /\ call' = NoCall
    /\ run' = [event |-> "count_tokens", fault |-> "", message |-> "", view |-> run.view]
    /\ UNCHANGED <<logged_in, registered_username, registered_password,
                   current_user, user_api_keys, selected_model_provider, api_usage,
                   current_call_token_info, projects, current_project,
                   modified_synopsis, editing_glossary_term, editing_character,
                   exported, uploaded_file, pending_for, today>>

NextTokens == CountLonger

SpecTokens == Init /\ [][NextTokens]_vars

SpecLedger == Init /\ [][NextLedger]_vars

-----------------------------------------------------------------------------
(* call_generative_api *)

ErrorPrefix == "ERROR"

\* the display name in the missing-credential message of each provider branch
ProviderDisplayName(provider) ==
    CASE provider = "Gemini" -> "Gemini"
      [] provider = "OpenAI" -> "OpenAI"
      [] provider = "Claude" -> "Anthropic (Claude)"

\* the key call_generative_api looks up in api_keys for each provider branch
ProviderKeyId(provider) ==
    CASE provider = "Gemini" -> "gemini"
      [] provider = "OpenAI" -> "openai"
      [] provider = "Claude" -> "claude"

MissingCredentialText(provider) ==
    <<ErrorPrefix, ": ", ProviderDisplayName(provider), " API key is not set">>
UnknownProviderText == <<ErrorPrefix, ": unknown AI model selected">>
ProviderErrorText(cause) == <<"An error occurred during the API call: ", cause>>

Failure(text) == [text |-> text, prompt_tokens |-> 0, response_tokens |-> 0]

\* a faulty variant of ApiKeyLookup that falls back to a built-in key
ApiKeyLookupWithDefault(api_keys, key_id) ==
    IF key_id \in DOMAIN api_keys THEN api_keys[key_id]
    ELSE [k \in {"default"} |-> "built-in-key"]

\* api_keys.get(key_id) as call_generative_api reads it: api_keys is
\* st.session_state.user_api_keys, the dict keyed by user name
ApiKeyLookup(api_keys, key_id) ==
    IF key_id \in DOMAIN api_keys THEN api_keys[key_id] ELSE << >>

\* a faulty variant of PromptTokens that trusts the reported usage for every provider
PromptTokensReported(provider, prompt, outcome) ==
    outcome.usage_prompt

\* the token counts of a successful response: Gemini's are estimated from the
\* texts, OpenAI's and Claude's are read from response.usage
PromptTokens(provider, prompt, outcome) ==
    IF provider = "Gemini" THEN count_tokens(prompt) ELSE outcome.usage_prompt

ResponseTokens(provider, outcome) ==
    IF provider = "Gemini" THEN count_tokens(outcome.text) ELSE outcome.usage_completion

\* a faulty variant of CallSucceeded that logs the response twice
CallSucceededLoggedTwice(S, model_name, response_text, prompt_tokens, response_tokens, now) ==
    [ret |-> [text |-> response_text, prompt_tokens |-> prompt_tokens,
              response_tokens |-> response_tokens],
     S |-> [S EXCEPT
              !.api_usage = log_api_usage(log_api_usage(@, model_name, prompt_tokens,
                                                        response_tokens, now),
                                          model_name, prompt_tokens, response_tokens, now),
              !.current_call_token_info =
                  [model |-> model_name, prompt_tokens |-> prompt_tokens,
                   response_tokens |-> response_tokens,
                   total_tokens |-> prompt_tokens + response_tokens]]]

\* the end of the try block: log_api_usage, the summary, the returned dict
CallSucceeded(S, model_name, response_text, prompt_tokens, response_tokens, now) ==
    [ret |-> [text |-> response_text, prompt_tokens |-> prompt_tokens,
              response_tokens |-> response_tokens],
     S |-> [S EXCEPT
              !.api_usage = log_api_usage(@, model_name, prompt_tokens,
                                          response_tokens, now),
              !.current_call_token_info =
                  [model |-> model_name, prompt_tokens |-> prompt_tokens,
                   response_tokens |-> response_tokens,
                   total_tokens |-> prompt_tokens + response_tokens]]]

\* a faulty variant of CallRaised that counts the failed request in the ledger
CallRaisedCounted(S, model_name, cause) ==
    [ret |-> Failure(ProviderErrorText(cause)),
     S |-> [S EXCEPT
              !.api_usage = [@ EXCEPT !.daily_requests = @ + 1,
                                      !.total_requests = @ + 1],
              !.current_call_token_info =
                  [model |-> model_name, prompt_tokens |-> 0, response_tokens |-> 0,
                   total_tokens |-> 0, error |-> cause]]]

\* the except block: the summary with the error, the returned dict
CallRaised(S, model_name, cause) ==
    [ret |-> Failure(ProviderErrorText(cause)),
     S |-> [S EXCEPT
              !.current_call_token_info =
                  [model |-> model_name, prompt_tokens |-> 0, response_tokens |-> 0,
                   total_tokens |-> 0, error |-> cause]]]

\* call_generative_api(prompt) on session state S; `outcome` is what the
\* provider's client does when it is called: it raises `cause`, or it returns
\* `text` with the usage counts the provider reports.  The result is the
\* returned dict, the session state at return, and the requests sent.
call_generative_api(S, prompt, outcome, now) ==
    LET model_provider == S.selected_model_provider
        api_keys == S.user_api_keys
        model_name == get_model_name(model_provider)
        request == [provider |-> model_provider, model |-> model_name]
    IN IF model_provider \notin {"Gemini", "OpenAI", "Claude"}
       THEN [ret |-> Failure(UnknownProviderText), S |-> S,
             outbound |-> << >>, kind |-> "unknown"]
       ELSE IF ~Truthy(ApiKeyLookup(api_keys, ProviderKeyId(model_provider)))
       THEN [ret |-> Failure(MissingCredentialText(model_provider)), S |-> S,
             outbound |-> << >>, kind |-> "missing"]
       ELSE IF outcome.raises
       THEN CallRaised(S, model_name, outcome.cause)
              @@ [outbound |-> <<request>>, kind |-> "error"]
       ELSE CallSucceeded(S, model_name, outcome.text,
                          PromptTokens(model_provider, prompt, outcome),
                          ResponseTokens(model_provider, outcome), now)
              @@ [outbound |-> <<request>>, kind |-> "ok"]

-----------------------------------------------------------------------------
(* The script run.  Widgets that the user did not touch return their stored *)
(* value, so a run without an event only applies what the script itself     *)
(* writes: the glossary back-fill, the daily reset, the API key fields, the *)
(* project selection and the manual-mode form fields.                       *)

\* a JSON value that is no object (a number) stored where a project is expected
JunkValue == [json_scalar |-> "5"]
IsDict(v) == "json_scalar" \notin DOMAIN v

KeySet(od) == {od.keys[i] : i \in 1..Len(od.keys)}

\* od[k] = v on the ordered dict: a new key goes last
ODSet(od, k, v) ==
    [keys |-> IF k \in KeySet(od) THEN od.keys ELSE Append(od.keys, k),
     val |-> DictSet(od.val, k, v)]

\* for project_name, project_data in projects.items():
\*     if 'glossary' not in project_data: project_data['glossary'] = {}
\* from the i-th key on; the membership test raises on a value that is no
\* container, and the projects before it keep their back-filled glossary
RECURSIVE BackfillFrom(_, _)
BackfillFrom(od, i) ==
    IF i > Len(od.keys) THEN [od |-> od, raised |-> FALSE]
    ELSE LET n == od.keys[i]
         IN IF ~IsDict(od.val[n]) THEN [od |-> od, raised |-> TRUE]
            ELSE IF "glossary" \in DOMAIN od.val[n] THEN BackfillFrom(od, i + 1)
            ELSE BackfillFrom([od EXCEPT !.val[n] = DictSet(@, "glossary", EmptyDict)],
                              i + 1)

BackfillGlossary(od) == BackfillFrom(od, 1)

\* the module-level statements after the session-state initialisation: the
\* glossary back-fill and the daily reset
AfterBackfill(S, b, current_date) ==
    IF b.raised
    THEN [S |-> [S EXCEPT !.projects = b.od], fault |-> "TypeError"]
    ELSE [S |-> [S EXCEPT !.projects = b.od,
                          !.api_usage = DailyReset(@, current_date)],
          fault |-> ""]

Preamble(S, current_date) == AfterBackfill(S, BackfillGlossary(S.projects), current_date)

ProviderKeyIds == {"gemini", "openai", "claude"}

\* main_app_view, sidebar: the three API key fields are written back to
\* user_api_keys[current_user]
ApiKeyFields(S) ==
    LET stored == Get(S.user_api_keys, S.current_user, EmptyDict)
    IN [S EXCEPT !.user_api_keys =
            DictSet(@, S.current_user, [k \in ProviderKeyIds |-> Get(stored, k, "")])]

\* main_app_view: a current_project that is no key of the store becomes the first key
ProjectSelection(S) ==
    IF S.projects.keys # << >> /\ S.current_project \notin KeySet(S.projects)
    THEN [S EXCEPT !.current_project = S.projects.keys[1]]
    ELSE S

AllGenres == {<<"isekai-fantasy">>, <<"modern-fantasy">>}
FirstGenre == <<"isekai-fantasy">>
AllTargets == {<<"teen-male">>, <<"all-ages">>}
FirstTarget == <<"teen-male">>

\* `if st.session_state.current_project:` - None and the empty name are false
HasProject(S) == S.current_project \notin {None, ""}
Proj(S) == S.projects.val[S.current_project]
SetProj(S, p) == [S EXCEPT !.projects.val[S.current_project] = p]
WritingMode(S) == Get(Proj(S), "writing_mode", "manual")

\* main_app_view, tab 1 in manual and hybrid mode: the form fields are
\* written back to the project; a select box whose stored value is no option
\* returns its first option
ManualFields(S) ==
    IF HasProject(S) /\ WritingMode(S) \in {"manual", "hybrid"}
    THEN LET p == Proj(S)
             genre == IF Get(p, "genre", << >>) \in AllGenres THEN p.genre ELSE FirstGenre
             target == IF Get(p, "target_audience", << >>) \in AllTargets
                       THEN p.target_audience ELSE FirstTarget
             p1 == DictSet(p, "genre", genre)
             p2 == DictSet(p1, "target_audience", target)
             p3 == DictSet(p2, "theme", Get(p, "theme", << >>))
             p4 == DictSet(p3, "synopsis", Get(p, "synopsis", << >>))
         IN SetProj(S, p4)
    ELSE S

\* main_app_view, tab 3 in manual and hybrid mode: the world setting text area
ManualWorldSetting(S) ==
    IF HasProject(S) /\ WritingMode(S) \in {"manual", "hybrid"}
    THEN SetProj(S, DictSet(Proj(S), "world_setting", Get(Proj(S), "world_setting", << >>)))
    ELSE S

\* Where the script stands, in the order of its statements: the module-level
\* preamble, the sidebar's provider and key widgets, glossary_sidebar_view,
\* the project management of the sidebar, and the tabs of the main content.
AtPreamble == 0
AtSidebar == 1
AtGlossary == 2
AtGlossaryDialog == 3
AtProjects == 4
AtTab1 == 5
AtTab2 == 6
AtCharacterDialog == 7
AtTab3 == 8
AtTab4 == 9
AtChapterList == 10
AtEnd == 11

\* glossary_sidebar_view: `with st.dialog(title, key=...)` raises whenever an
\* edited term is set and is a term of the active project's glossary
\* (st.dialog takes no key and is no context manager)
GlossaryDialogFault(S) ==
    IF /\ S.current_user # None
       /\ HasProject(S)
       /\ S.editing_glossary_term # None
       /\ S.editing_glossary_term \in DOMAIN Proj(S).glossary
    THEN "TypeError" ELSE ""

\* tab 2: project['characters'][char_to_edit] raises for a character the
\* active project does not hold, and the dialog raises otherwise
CharacterDialogFault(S) ==
    IF HasProject(S) /\ S.editing_character # None
    THEN IF S.editing_character \in DOMAIN Get(Proj(S), "characters", EmptyDict)
         THEN "TypeError" ELSE "KeyError"
    ELSE ""

\* tab 4, chapter mode: `if not project['chapters']` raises for a project
\* without the chapters map
ChapterListFault(S) ==
    IF HasProject(S) /\ "chapters" \notin DOMAIN Proj(S) THEN "KeyError" ELSE ""

\* main_app_view without an event, up to its first fault: from tab 4 on,
\* with the session state s3 that tab 3 leaves
FromTab4(s3) ==
    IF ChapterListFault(s3) # ""
    THEN [S |-> s3, fault |-> ChapterListFault(s3), at |-> AtChapterList]
    ELSE [S |-> s3, fault |-> "", at |-> AtEnd]

\* from the character dialog on, with the state s2 that tab 1 leaves
FromCharacterDialog(s2) ==
    IF CharacterDialogFault(s2) # ""
    THEN [S |-> s2, fault |-> CharacterDialogFault(s2), at |-> AtCharacterDialog]
    ELSE FromTab4(ManualWorldSetting(s2))

\* from the glossary dialog on, with the state s1 that the sidebar's key
\* fields leave
FromGlossaryDialog(s1) ==
    IF GlossaryDialogFault(s1) # ""
    THEN [S |-> s1, fault |-> GlossaryDialogFault(s1), at |-> AtGlossaryDialog]
    ELSE FromCharacterDialog(ManualFields(ProjectSelection(s1)))

MainPassive(S) == FromGlossaryDialog(ApiKeyFields(S))

\* the dispatch at the end of the script, after the preamble left `pre`
Dispatch(pre) ==
    IF pre.fault # "" THEN [S |-> pre.S, fault |-> pre.fault, at |-> AtPreamble]
    ELSE IF ~pre.S.logged_in THEN [S |-> pre.S, fault |-> "", at |-> AtEnd]
    ELSE MainPassive(pre.S)

\* one script run without an event: the session state it leaves, its fault
\* and the place of the fault
Passive(S, current_date) == Dispatch(Preamble(S, current_date))

\* the script reaches the widget at place `pos`
Reaches(p, pos) == p.fault = "" \/ p.at > pos

\* The widget at place `pos` of the main view can be used: the user is
\* logged in and a script run reaches the place.  (After a fault the page
\* keeps the widgets rendered before it.)
Shown(pos) == logged_in /\ Reaches(Passive(Session, today), pos)

\* is_api_key_set() of main_app_view
is_api_key_set(S) ==
    LET provider == ProviderKeyId(S.selected_model_provider)
    IN TruthyStr(Get(Get(S.user_api_keys, S.current_user, EmptyDict), provider, ""))

\* the view the script shows for session state S
ViewOf(S) == IF S.logged_in THEN "main"
             ELSE IF S.registered_username = None THEN "setup" ELSE "login"

\* The end of a script run whose handler left R = [S, call, message, fault,
\* rerun]: st.rerun() starts a run without an event, a fault stops the script.
Finish(event, R) ==
    \E end \in {IF R.rerun THEN Passive(R.S, today) ELSE [S |-> R.S, fault |-> R.fault]} :
       /\ Commit(end.S)
       /\ call' = R.call
       /\ run' = [event |-> event, fault |-> end.fault, message |-> R.message,
                  view |-> IF end.fault # "" THEN "fault" ELSE ViewOf(end.S)]
       /\ today' = today
       /\ counted' = counted
       /\ pending_for' = IF end.S.modified_synopsis = modified_synopsis THEN pending_for
                         ELSE IF Truthy(end.S.modified_synopsis) THEN end.S.current_project
                         ELSE None
       /\ exported' = IF "exported" \in DOMAIN R THEN R.exported ELSE exported
       /\ uploaded_file' = IF "uploaded_file" \in DOMAIN R THEN R.uploaded_file
                           ELSE uploaded_file

\* a handler's result
Result(S, c, message, fault, rerun) ==
    [S |-> S, call |-> c, message |-> message, fault |-> fault, rerun |-> rerun]

\* The run goes on after a handler that neither reran nor raised, and meets
\* the fault that lies after the handler's widget.
After(p, R) == IF R.rerun \/ R.fault # "" THEN R ELSE [R EXCEPT !.fault = p.fault]

FinishAfter(p, event, R) == Finish(event, After(p, R))

\* the history record of a call_generative_api invocation
CallRecord(S, prompt, outcome, r) ==
    [invoked |-> TRUE, key_set |-> is_api_key_set(S),
     provider |-> S.selected_model_provider, kind |-> r.kind,
     outbound |-> r.outbound, prompt |-> prompt, outcome |-> outcome,
     ret |-> r.ret, before |-> S, after |-> r.S]

\* a call made by a handler: r is what call_generative_api returned, c the
\* history record of the invocation
Called(S, prompt, outcome, r) == [r |-> r, c |-> CallRecord(S, prompt, outcome, r)]

Invoke(S, prompt, outcome, now) ==
    Called(S, prompt, outcome, call_generative_api(S, prompt, outcome, now))

\* A script run with no widget event (any interaction that only reruns).
Rerun ==
    \E p \in {Passive(Session, today)} :
       Finish("rerun", Result(p.S, NoCall, "", p.fault, FALSE))

-----------------------------------------------------------------------------
(* What the user types and what the providers answer *)

UserNames == {"alice", "gemini", "openai", "claude"}
Passwords == {"pw"}
ApiKeyValues == {"", "sk-1"}
ProjectNames == {"p1"}
WritingModes == {"manual", "ai", "hybrid"}
GenrePreferences == {"omakase"}
TargetPreferences == {"omakase"}
TonePreferences == {"omakase"}
SynopsisTexts == {<<"synopsis-of-300-characters">>}
Instructions == {<< >>, <<"more-moving">>}
CharacterNames == {"", "Hiro"}
CharacterRoles == {"protagonist"}
CharacterDetails == {<< >>, <<"request-of-300-characters">>}
CreationModes == {"manual", "AI"}
ChapterNames == {"", "ch1"}
ChapterPlots == {<<"plot">>}
ResponseTexts == {<<"a-dragon-dances">>}

\* what the provider's client does with one request
Outcomes ==
    {[raises |-> TRUE, cause |-> "timeout", text |-> << >>,
      usage_prompt |-> 0, usage_completion |-> 0]}
    \cup {[raises |-> FALSE, cause |-> "", text |-> t,
           usage_prompt |-> 7, usage_completion |-> 11] : t \in ResponseTexts}

-----------------------------------------------------------------------------
(* Sign-up *)

\* setup_user_view, the submitted form; save_user_data is defined nowhere
RegisterHandler(S, new_username, new_password, confirm_password) ==
    IF TruthyStr(new_username) /\ TruthyStr(new_password) /\ TruthyStr(confirm_password)
    THEN IF new_password = confirm_password
         THEN Result([S EXCEPT !.registered_username = new_username,
                               !.registered_password = new_password,
                               !.current_user = new_username,
                               !.logged_in = TRUE,
                               !.user_api_keys = DictSet(@, new_username, EmptyDict)],
                     NoCall, "", "NameError", FALSE)
         ELSE Result(S, NoCall, "error: passwords differ", "", FALSE)
    ELSE Result(S, NoCall, "error: name and password needed", "", FALSE)

Register(users) ==
    /\ run.view = "setup"
    /\ \E p \in {Passive(Session, today)} :
         \E u \in users \cup {""}, pw \in Passwords, confirm \in Passwords \cup {"other"} :
            Finish("register", RegisterHandler(p.S, u, pw, confirm))

-----------------------------------------------------------------------------
(* Sidebar *)

SelectProvider(providers) ==
    /\ Shown(AtSidebar)
    /\ \E provider \in providers :
         \E p \in {Passive([Session EXCEPT !.selected_model_provider = provider], today)} :
            Finish("select_provider", Result(p.S, NoCall, "", p.fault, FALSE))

SetApiKey(key_ids) ==
    /\ Shown(AtSidebar)
    /\ \E k \in key_ids, v \in ApiKeyValues :
         \E p \in {Passive([Session EXCEPT !.user_api_keys[current_user] =
                                                DictSet(@, k, v)], today)} :
            Finish("set_api_key", Result(p.S, NoCall, "", p.fault, FALSE))

\* the project a new-project creation stores
NewProject(now) ==
    [created_at |-> now, synopsis |-> << >>, characters |-> EmptyDict,
     world_setting |-> << >>, plot_outline |-> << >>, chapters |-> EmptyDict,
     genre |-> << >>, target_audience |-> << >>, theme |-> << >>,
     writing_mode |-> "manual", glossary |-> EmptyDict]

CreateProjectHandler(S, new_project_name, now) ==
    IF ~TruthyStr(new_project_name) THEN Result(S, NoCall, "", "", FALSE)
    ELSE IF new_project_name \notin KeySet(S.projects)
    THEN Result([S EXCEPT !.projects = ODSet(@, new_project_name, NewProject(now)),
                          !.current_project = new_project_name],
                NoCall, "success", "", TRUE)
    ELSE Result(S, NoCall, "warning: project exists", "", FALSE)

CreateProject ==
    /\ Shown(AtProjects)
    /\ \E p \in {Passive(Session, today)} :
         \E name \in ProjectNames \cup {""} :
                 FinishAfter(p, "create_project", CreateProjectHandler(p.S, name, today))

SetWritingMode(modes) ==
    /\ Shown(AtTab1)
    /\ \E p \in {Passive(Session, today)} :
         \E mode \in modes :
                 /\ HasProject(p.S)
                 /\ FinishAfter(p, "set_writing_mode",
                           Result(SetProj(p.S, DictSet(Proj(p.S), "writing_mode", mode)),
                                  NoCall, "", "", TRUE))

\* the synopsis text area of the manual and hybrid modes returns what was typed
TypeSynopsis(text) ==
    /\ Shown(AtTab1)
    /\ \E p \in {Passive(Session, today)} :
          /\ HasProject(p.S)
          /\ WritingMode(p.S) \in {"manual", "hybrid"}
          /\ FinishAfter(p, "edit_synopsis",
                         Result(SetProj(p.S, DictSet(Proj(p.S), "synopsis", text)),
                                NoCall, "", "", FALSE))

EditSynopsis == \E text \in SynopsisTexts \cup {<< >>} : TypeSynopsis(text)

\* The synopses typed for the quality indicator: the first k engaging
\* words, each of them `times` times, a mark, a genre word, and n sentences
\* of one filler each.
EngagingCounts == {0, 1, 9}
EngagingRepeats == {1, 2}
Marks == {"", "?", "FW?", "FW!"}
GenreWords == {"", "dragon"}
SentenceCounts == {0, 4, 7}
Fillers == {"space", "filler-72", "filler-100"}

RECURSIVE Repeat(_, _)
Repeat(s, n) == IF n = 0 THEN << >> ELSE s \o Repeat(s, n - 1)

Compose(k, times, mark, genre, n, filler) ==
    Repeat(SubSeq(engaging_words, 1, k), times)
      \o (IF mark = "" THEN << >> ELSE <<mark>>)
      \o (IF genre = "" THEN << >> ELSE <<genre>>)
      \o Repeat(<<filler, "MARU">>, n)

\* the synopsis text area receives one of these synopses
EditComposedSynopsis ==
    \E k \in EngagingCounts, times \in EngagingRepeats, mark \in Marks,
       genre \in GenreWords, n \in SentenceCounts, filler \in Fillers :
      TypeSynopsis(Compose(k, times, mark, genre, n, filler))

-----------------------------------------------------------------------------
(* AI actions of the main view *)

ApiKeyMessage == "error: set the API key in the sidebar"

GenreMap(genre_preference) ==
    CASE genre_preference = "omakase" -> <<"isekai-fantasy">>
      [] genre_preference = "fantasy" -> <<"modern-fantasy">>
      [] OTHER -> <<"other">>

TargetMap(target_preference) ==
    CASE target_preference = "omakase" -> <<"teen-male">>
      [] target_preference = "all-ages" -> <<"all-ages">>
      [] OTHER -> <<"specific-target">>

FallbackTheme == <<"growth-and-friendship">>

\* tab 1, the theme generation button
ThemeResponse(m) ==
    IF ~StartsWith(m.r.ret.text, ErrorPrefix)
    THEN Result(SetProj(m.r.S, DictSet(Proj(m.r.S), "theme", m.r.ret.text)),
                m.c, "success", "", TRUE)
    ELSE Result(SetProj(m.r.S, DictSet(Proj(m.r.S), "theme", FallbackTheme)),
                m.c, "error: call failed", "", FALSE)

ThemeHandler(S, genre_preference, target_preference, tone_preference, outcome, now) ==
    IF ~is_api_key_set(S) THEN Result(S, NoCall, ApiKeyMessage, "", FALSE)
    ELSE LET genre == GenreMap(genre_preference)
             target == TargetMap(target_preference)
         IN ThemeResponse(
              Invoke(SetProj(S, DictSet(DictSet(Proj(S), "genre", genre),
                                        "target_audience", target)),
                     <<"theme_prompt">> \o genre \o target \o <<tone_preference>>,
                     outcome, now))

GenerateTheme ==
    /\ Shown(AtTab1)
    /\ api_usage.total_requests < MaxCalls
    /\ \E p \in {Passive(Session, today)} :
         \E g \in GenrePreferences, t \in TargetPreferences, tone \in TonePreferences,
            outcome \in Outcomes :
                 /\ HasProject(p.S)
                 /\ WritingMode(p.S) \in {"ai", "hybrid"}
                 /\ FinishAfter(p, "generate_theme", ThemeHandler(p.S, g, t, tone, outcome, today))

\* the fallback placeholder of base_info
NotSet == <<"not-set">>

\* The f-string of base_info, evaluated from left to right: the genre and the
\* target audience are read with project_data.get(key, placeholder), which
\* gives the placeholder for a missing key only; the third interpolation
\* reads the unbound name `project`.
BaseInfo(project_data) ==
    [genre |-> Get(project_data, "genre", NotSet),
     target_audience |-> Get(project_data, "target_audience", NotSet),
     fault |-> "NameError"]

\* generate_ai_content: the f-string of base_info reads project_data and then
\* the global name `project`, which the module never binds; the NameError is
\* raised before any prompt is built and before call_generative_api
generate_ai_content(S, content_type) ==
    Result(S, NoCall, "", BaseInfo(Proj(S)).fault, FALSE)

\* the tab of each generation button
ContentPlace(content_type) ==
    CASE content_type = "synopsis" -> AtTab1
      [] content_type = "world_setting" -> AtTab3
      [] content_type = "full_story" -> AtTab4

\* tab 1 synopsis, tab 3 world setting and tab 4 full story generation buttons
GenerateHandler(S, content_type) ==
    IF ~is_api_key_set(S) THEN Result(S, NoCall, ApiKeyMessage, "", FALSE)
    ELSE generate_ai_content(S, content_type)

GenerateContent ==
    /\ api_usage.total_requests < MaxCalls
    /\ \E p \in {Passive(Session, today)} :
         \E content_type \in {"synopsis", "world_setting", "full_story"} :
                 /\ Shown(ContentPlace(content_type))
                 /\ HasProject(p.S)
                 /\ content_type = "full_story" \/ WritingMode(p.S) \in {"ai", "hybrid"}
                 /\ FinishAfter(p, content_type, GenerateHandler(p.S, content_type))

\* tab 4, the chapter writing button
ChapterHandler(S, chapter_name, plot_outline, target_length, writing_style) ==
    IF ~TruthyStr(chapter_name) \/ ~Truthy(plot_outline)
    THEN Result(S, NoCall, "warning: title and plot needed", "", FALSE)
    ELSE LET p1 == DictSet(Proj(S), "current_chapter_name", chapter_name)
             p2 == DictSet(p1, "current_chapter_plot", plot_outline)
             p3 == DictSet(p2, "current_chapter_length", target_length)
             p4 == DictSet(p3, "current_chapter_style", writing_style)
             S1 == SetProj(S, p4)
         IN IF ~is_api_key_set(S1) THEN Result(S1, NoCall, ApiKeyMessage, "", FALSE)
            ELSE generate_ai_content(S1, "chapter")

WriteChapter ==
    /\ Shown(AtTab4)
    /\ api_usage.total_requests < MaxCalls
    /\ \E p \in {Passive(Session, today)} :
         \E chapter_name \in ChapterNames, plot \in ChapterPlots :
                 /\ HasProject(p.S)
                 /\ FinishAfter(p, "chapter", ChapterHandler(p.S, chapter_name, plot,
                                                     "3000-5000", "third-person"))

ManualDetails == <<"add a details field for manual input">>
FailedDetails == <<"AI generation failed">>

\* tab 2, the add-character button
\* project['characters'][new_char_name] = char_data
AddCharacterData(S, new_char_name, char_data) ==
    SetProj(S, [Proj(S) EXCEPT !.characters = DictSet(@, new_char_name, char_data)])

CharacterResponse(m, new_char_name, new_char_role) ==
    IF ~StartsWith(m.r.ret.text, ErrorPrefix)
    THEN Result(m.r.S, m.c, "success", "", TRUE)
    ELSE Result(AddCharacterData(m.r.S, new_char_name,
                                 [role |-> new_char_role, details |-> FailedDetails]),
                m.c, "error: call failed", "", TRUE)

CharacterHandler(S, new_char_name, new_char_role, char_creation_mode, char_details_input, outcome, now) ==
    IF ~(TruthyStr(new_char_name)
         /\ (char_creation_mode = "manual" \/ Truthy(char_details_input)))
    THEN Result(S, NoCall, "warning: name and details needed", "", FALSE)
    ELSE IF "characters" \notin DOMAIN Proj(S)
    THEN Result(S, NoCall, "", "KeyError", FALSE)
    ELSE IF new_char_name \in DOMAIN Proj(S).characters
    THEN Result(S, NoCall, "warning: character exists", "", FALSE)
    ELSE IF char_creation_mode = "manual"
    THEN Result(AddCharacterData(S, new_char_name,
                                 [role |-> new_char_role, details |-> ManualDetails]),
                NoCall, "success", "", TRUE)
    ELSE IF ~is_api_key_set(S)
    THEN Result(AddCharacterData(S, new_char_name, [role |-> new_char_role]),
                NoCall, ApiKeyMessage, "", TRUE)
    ELSE CharacterResponse(
           Invoke(S, <<"full_char_prompt", new_char_name, new_char_role>>
                       \o char_details_input,
                  outcome, now),
           new_char_name, new_char_role)

AddCharacter(modes) ==
    /\ Shown(AtTab2)
    /\ api_usage.total_requests < MaxCalls
    /\ \E p \in {Passive(Session, today)} :
         \E name \in CharacterNames, role \in CharacterRoles, mode \in modes,
            details \in CharacterDetails, outcome \in Outcomes :
                 /\ HasProject(p.S)
                 /\ mode = "AI" \/ details = << >>
                 /\ FinishAfter(p, "add_character",
                           CharacterHandler(p.S, name, role, mode, details, outcome, today))

\* modify_content_with_ai(content, modification_request, content_type)
modify_content_with_ai(S, content, modification_request, outcome, now) ==
    Invoke(S, <<"modification_prompt">> \o modification_request \o content, outcome, now)

ModifyResponse(m) ==
    IF ~StartsWith(m.r.ret.text, ErrorPrefix)
    THEN Result([m.r.S EXCEPT !.modified_synopsis = m.r.ret.text],
                m.c, "success", "", TRUE)
    ELSE Result(m.r.S, m.c, "error: call failed", "", FALSE)

\* tab 1, the synopsis modification button
ModifySynopsisHandler(S, synopsis_modification, outcome, now) ==
    IF ~Truthy(synopsis_modification) THEN Result(S, NoCall, "", "", FALSE)
    ELSE IF ~is_api_key_set(S) THEN Result(S, NoCall, ApiKeyMessage, "", FALSE)
    ELSE ModifyResponse(modify_content_with_ai(S, Proj(S).synopsis, synopsis_modification,
                                               outcome, now))

ModifySynopsis ==
    /\ Shown(AtTab1)
    /\ api_usage.total_requests < MaxCalls
    /\ \E p \in {Passive(Session, today)} :
         \E instruction \in Instructions, outcome \in Outcomes :
                 /\ HasProject(p.S)
                 /\ Truthy(Get(Proj(p.S), "synopsis", << >>))
                 /\ FinishAfter(p, "modify_synopsis",
                           ModifySynopsisHandler(p.S, instruction, outcome, today))

\* tab 1, the accept button under the proposed synopsis
AcceptSynopsis ==
    /\ Shown(AtTab1)
    /\ \E p \in {Passive(Session, today)} :
               /\ HasProject(p.S)
               /\ Truthy(Get(Proj(p.S), "synopsis", << >>))
               /\ Truthy(p.S.modified_synopsis)
               /\ FinishAfter(p, "accept_synopsis",
                         Result([SetProj(p.S, DictSet(Proj(p.S), "synopsis",
                                                      p.S.modified_synopsis))
                                   EXCEPT !.modified_synopsis = << >>],
                                NoCall, "success", "", TRUE))

-----------------------------------------------------------------------------
(* Import *)

\* a project as an exported document holds it, here without its glossary
ImportedProject ==
    [created_at |-> -1, synopsis |-> <<"synopsis-of-300-characters">>,
     characters |-> EmptyDict, world_setting |-> << >>, plot_outline |-> << >>,
     chapters |-> EmptyDict, genre |-> <<"isekai-fantasy">>,
     target_audience |-> <<"teen-male">>, theme |-> << >>, writing_mode |-> "manual"]

Pair(k, v) == [pair |-> TRUE, k |-> k, v |-> v]
\* an array element that is no two-element array
Scalar == [pair |-> FALSE, k |-> "", v |-> JunkValue]

\* The uploaded documents: text that is no JSON; a JSON number; an object
\* from project name to project; an object whose value is a number; an array
\* of a [name, project] pair followed by a number.
ImportDocs ==
    {[kind |-> "malformed", items |-> << >>],
     [kind |-> "number", items |-> << >>],
     [kind |-> "object", items |-> <<Pair("p2", ImportedProject)>>],
     [kind |-> "object", items |-> <<Pair("p2", JunkValue)>>],
     [kind |-> "array", items |-> <<Pair("p2", ImportedProject), Scalar>>]}

\* a project object that holds a synopsis and nothing else
PartialProject == [synopsis |-> <<"synopsis-of-300-characters">>]

\* Documents that import without an error: a project under a stored name; a
\* project object without most fields; a project under the empty name.
MergeDocs ==
    {[kind |-> "object", items |-> <<Pair("p1", ImportedProject)>>],
     [kind |-> "object", items |-> <<Pair("p2", PartialProject)>>],
     [kind |-> "object", items |-> <<Pair("", ImportedProject)>>]}

\* a faulty variant of ExportDocument that writes the first project only
ExportDocumentFirst(od) ==
    [kind |-> "object", items |-> <<Pair(od.keys[1], od.val[od.keys[1]])>>]

\* json.dumps(st.session_state.projects): an object with one member per
\* project, in the store's order; names and values are JSON strings and
\* objects already
ExportDocument(od) ==
    [kind |-> "object",
     items |-> [i \in 1..Len(od.keys) |-> Pair(od.keys[i], od.val[od.keys[i]])]]

\* a faulty variant of UpdateItems that keeps a stored project of the same name
RECURSIVE UpdateItemsKeepStored(_, _)
UpdateItemsKeepStored(od, items) ==
    IF items = << >> THEN [od |-> od, raised |-> FALSE]
    ELSE IF ~Head(items).pair THEN [od |-> od, raised |-> TRUE]
    ELSE IF Head(items).k \in KeySet(od) THEN UpdateItemsKeepStored(od, Tail(items))
    ELSE UpdateItemsKeepStored(ODSet(od, Head(items).k, Head(items).v), Tail(items))

\* dict.update(imported_data) item by item: an element that is no pair
\* raises, and the items before it stay stored
RECURSIVE UpdateItems(_, _)
UpdateItems(od, items) ==
    IF items = << >> THEN [od |-> od, raised |-> FALSE]
    ELSE IF ~Head(items).pair THEN [od |-> od, raised |-> TRUE]
    ELSE UpdateItems(ODSet(od, Head(items).k, Head(items).v), Tail(items))

\* st.session_state.projects.update(imported_data)
DictUpdate(od, doc) ==
    IF doc.kind = "number" THEN [od |-> od, raised |-> TRUE]
    ELSE UpdateItems(od, doc.items)

\* the import button: json.load, projects.update, the glossary back-fill;
\* both except clauses report the error and the script goes on
ImportHandler(S, doc) ==
    IF doc.kind = "malformed"
    THEN Result(S, NoCall, "error: invalid JSON file", "", FALSE)
    ELSE LET u == DictUpdate(S.projects, doc)
             b == BackfillGlossary(u.od)
         IN IF u.raised
            THEN Result([S EXCEPT !.projects = u.od], NoCall, "error: import error", "", FALSE)
            ELSE IF b.raised
            THEN Result([S EXCEPT !.projects = b.od], NoCall, "error: import error", "", FALSE)
            ELSE Result([S EXCEPT !.projects = b.od], NoCall, "success", "", TRUE)

Import(docs) ==
    /\ Shown(AtProjects)
    /\ \E p \in {Passive(Session, today)} :
         \E doc \in docs \cup {d \in {exported.doc} : d.kind # "none"} :
                 FinishAfter(p, "import",
                             ImportHandler(p.S, doc)
                               @@ [uploaded_file |-> [doc |-> doc, names |-> KeySet(p.S.projects)]])

\* the export download button, shown while the store holds a project
Export ==
    /\ Shown(AtProjects)
    /\ \E p \in {Passive(Session, today)} :
               /\ p.S.projects.keys # << >>
               /\ FinishAfter(p, "export",
                              Result(p.S, NoCall, "", "", FALSE)
                                @@ [exported |-> [doc |-> ExportDocument(p.S.projects),
                                                  origin |-> p.S.projects]])

\* a faulty variant of ODDel that removes the first key
ODDelFirst(od, k) ==
    [keys |-> Tail(od.keys), val |-> DictDel(od.val, od.keys[1])]

\* del projects[k] on the ordered dict
ODDel(od, k) ==
    [keys |-> SelectSeq(od.keys, LAMBDA x : x # k), val |-> DictDel(od.val, k)]

\* a faulty variant of DeleteHandler that keeps the reference to the deleted
\* project and does not start a new run
DeleteHandlerKeepsSelection(S) ==
    IF HasProject(S)
    THEN Result([S EXCEPT !.projects = ODDel(@, S.current_project)],
                NoCall, "success", "", FALSE)
    ELSE Result(S, NoCall, "", "", FALSE)

\* the delete button, shown while the store holds a project
DeleteHandler(S) ==
    IF HasProject(S)
    THEN Result([S EXCEPT !.projects = ODDel(@, S.current_project),
                          !.current_project = None],
                NoCall, "success", "", TRUE)
    ELSE Result(S, NoCall, "", "", FALSE)

DeleteProject ==
    /\ Shown(AtProjects)
    /\ \E p \in {Passive(Session, today)} :
               /\ p.S.projects.keys # << >>
               /\ FinishAfter(p, "delete_project", DeleteHandler(p.S))

\* the project select box of the sidebar: another project is chosen
SelectProject ==
    /\ Shown(AtProjects)
    /\ \E p \in {Passive(Session, today)} :
          \E selected_project \in KeySet(p.S.projects) \ {p.S.current_project} :
            FinishAfter(p, "select_project",
                        Result([p.S EXCEPT !.current_project = selected_project],
                               NoCall, "", "", TRUE))

-----------------------------------------------------------------------------
(* Glossary, and the edit buttons of terms and characters *)

GlossaryTermNames == {"", "mana", "rune"}
GlossaryDescriptions == {<< >>, <<"description">>}

\* the session state glossary_sidebar_view starts from: the preamble and the
\* sidebar's key fields have run, the project selection has not
SidebarState(S, current_date) == ApiKeyFields(Preamble(S, current_date).S)

\* glossary_sidebar_view is past its two early returns and has looked up the
\* active project
GlossaryShown(S) ==
    /\ S.current_user \notin {None, ""}
    /\ HasProject(S)
    /\ S.current_project \in KeySet(S.projects)

\* the add button of the glossary expander
AddTermHandler(S, new_term_name, new_term_description, now) ==
    IF ~(TruthyStr(new_term_name) /\ Truthy(new_term_description))
    THEN Result(S, NoCall, "warning: term and description needed", "", FALSE)
    ELSE IF new_term_name \notin DOMAIN Proj(S).glossary
    THEN Result(SetProj(S, [Proj(S) EXCEPT !.glossary =
                                DictSet(@, new_term_name,
                                        [description |-> new_term_description,
                                         added_at |-> now])]),
                NoCall, "success", "", TRUE)
    ELSE Result(S, NoCall, "warning: term exists", "", FALSE)

AddGlossaryTerm ==
    /\ Shown(AtGlossary)
    /\ \E name \in GlossaryTermNames, description \in GlossaryDescriptions :
         \E p \in {Passive(Session, today)}, s \in {SidebarState(Session, today)} :
            /\ GlossaryShown(s)
            /\ \E R \in {AddTermHandler(s, name, description, today)} :
                 IF R.rerun THEN Finish("add_glossary_term", R)
                 ELSE FinishAfter(p, "add_glossary_term", [R EXCEPT !.S = p.S])

\* the edit button of a listed term
EditGlossaryTerm ==
    /\ Shown(AtGlossary)
    /\ \E s \in {SidebarState(Session, today)} :
          /\ GlossaryShown(s)
          /\ \E term_name \in DOMAIN Proj(s).glossary :
               Finish("edit_glossary_term",
                      Result([s EXCEPT !.editing_glossary_term = term_name],
                             NoCall, "", "", TRUE))

\* the label of the confirm button that the delete button of a term reveals
ConfirmLabel(term_name) == "confirm: delete " \o term_name

\* The delete button of a listed term: in the run of the click the button
\* reads as pressed, so the confirm button nested in its `if` is rendered;
\* that button reads as not pressed and nothing is deleted.
DeleteGlossaryTerm ==
    /\ Shown(AtGlossary)
    /\ \E p \in {Passive(Session, today)}, s \in {SidebarState(Session, today)} :
          /\ GlossaryShown(s)
          /\ \E term_name \in DOMAIN Proj(s).glossary :
               FinishAfter(p, "delete_glossary_term",
                           Result(p.S, NoCall, ConfirmLabel(term_name), "", FALSE))

\* The confirm button, which is on the page after a click on delete: in the
\* run of this click the delete button reads as not pressed, so the nested
\* st.sidebar.button call and the `del` under it are not executed.
ConfirmDeleteGlossaryTerm ==
    /\ Shown(AtGlossary)
    /\ \E p \in {Passive(Session, today)}, s \in {SidebarState(Session, today)} :
          /\ GlossaryShown(s)
          /\ \E term_name \in DOMAIN Proj(s).glossary :
               /\ run.message = ConfirmLabel(term_name)
               /\ FinishAfter(p, "confirm_delete_glossary_term",
                              Result(p.S, NoCall, "", "", FALSE))

\* tab 2, the edit button of a listed character
EditCharacter ==
    /\ Shown(AtTab2)
    /\ \E p \in {Passive(Session, today)} :
          /\ HasProject(p.S)
          /\ \E name \in DOMAIN Get(Proj(p.S), "characters", EmptyDict) :
               Finish("edit_character",
                      Result([p.S EXCEPT !.editing_character = name],
                             NoCall, "", "", TRUE))

-----------------------------------------------------------------------------
(* Specifications *)

\* the application: sign-up, the sidebar, and the AI actions
Next ==
    \/ Register(UserNames)
    \/ Rerun
    \/ SelectProvider(ProviderNames)
    \/ SetApiKey(ProviderKeyIds)
    \/ CreateProject
    \/ SetWritingMode({"ai"})
    \/ GenerateTheme
    \/ GenerateContent
    \/ AddCharacter({"AI"})

Spec == Init /\ [][Next]_vars

\* one user across date changes
NextDays ==
    \/ Register({"gemini"})
    \/ Rerun
    \/ Tick
    \/ SetApiKey({"gemini"})
    \/ CreateProject
    \/ SetWritingMode({"ai"})
    \/ GenerateTheme

SpecDays == Init /\ [][NextDays]_vars

\* the project store: creation, editing, import
NextStore ==
    \/ Register({"alice"})
    \/ Rerun
    \/ CreateProject
    \/ SetWritingMode(WritingModes)
    \/ EditSynopsis
    \/ Import(ImportDocs \cup MergeDocs)

SpecStore == Init /\ [][NextStore]_vars

\* the project store: export, deletion, and import of what was exported
NextArchive ==
    \/ Register({"alice"})
    \/ Rerun
    \/ CreateProject
    \/ EditSynopsis
    \/ Import({[kind |-> "object", items |-> <<Pair("p2", ImportedProject)>>]})
    \/ Export
    \/ DeleteProject

SpecArchive == Init /\ [][NextArchive]_vars

\* a new project that was put into AI mode, as an exported document holds it
AiProject == [NewProject(0) EXCEPT !.writing_mode = "ai"]

\* generation with a stored key, for created and imported projects
NextPrompt ==
    \/ Register({"alice"})
    \/ Rerun
    \/ SetApiKey({"gemini"})
    \/ CreateProject
    \/ SetWritingMode({"ai"})
    \/ Import({[kind |-> "object", items |-> <<Pair("p2", AiProject)>>]})
    \/ GenerateTheme
    \/ GenerateContent
    \/ WriteChapter
    \/ AddCharacter({"AI"})
    \/ EditSynopsis
    \/ ModifySynopsis

SpecPrompt == Init /\ [][NextPrompt]_vars

\* two projects and a proposed synopsis that waits for its acceptance
NextPending ==
    \/ Register({"gemini"})
    \/ Rerun
    \/ SetApiKey({"gemini"})
    \/ Import({[kind |-> "object",
                 items |-> <<Pair("p1", ImportedProject), Pair("p2", ImportedProject)>>]})
    \/ ModifySynopsis
    \/ AcceptSynopsis
    \/ SelectProject
    \/ DeleteProject

SpecPending == Init /\ [][NextPending]_vars

\* one project and its glossary
NextGlossary ==
    \/ Register({"alice"})
    \/ Rerun
    \/ CreateProject
    \/ SetWritingMode(WritingModes)
    \/ AddGlossaryTerm
    \/ DeleteGlossaryTerm
    \/ ConfirmDeleteGlossaryTerm

SpecGlossary == Init /\ [][NextGlossary]_vars

\* the date changes after one of these numbers of recorded calls
DateChangePoints == {50, 99, 101}
TickAfter(points) == api_usage.total_requests \in points /\ Tick

\* the ledger across date changes: records, the clock, and the script runs
\* that reset the daily counters
NextUsage ==
    \/ LedgerRecord
    \/ TickAfter(DateChangePoints)
    \/ Rerun

SpecUsage == Init /\ [][NextUsage]_vars

\* two projects, their characters and glossaries, and the edit buttons
NextEdit ==
    \/ Register({"alice"})
    \/ Rerun
    \/ CreateProject
    \/ Import({[kind |-> "object", items |-> <<Pair("p2", ImportedProject)>>]})
    \/ SelectProject
    \/ DeleteProject
    \/ AddCharacter({"manual"})
    \/ AddGlossaryTerm
    \/ EditGlossaryTerm
    \/ EditCharacter

SpecEdit == Init /\ [][NextEdit]_vars

\* one project whose synopsis is typed and scored
NextScore ==
    \/ Register({"alice"})
    \/ Rerun
    \/ CreateProject
    \/ EditComposedSynopsis

SpecScore == Init /\ [][NextScore]_vars

-----------------------------------------------------------------------------
(* Properties of call_generative_api, read from the record `call` of the   *)
(* invocation made in the last script run.                                  *)

\* the project the main view works on
ActiveProject ==
    IF current_project \in DOMAIN projects.val THEN projects.val[current_project]
    ELSE EmptyDict

\* C1: whenever the logged-in user has stored a non-empty credential for the
\* selected provider (is_api_key_set holds), call_generative_api does not
\* return the missing-credential failure: it sends exactly one request to that
\* provider with the provider's fixed model identifier.
C1_StoredCredentialDispatches ==
    (call.invoked /\ call.key_set) =>
        /\ call.kind # "missing"
        /\ call.ret.text # MissingCredentialText(call.provider)
        /\ Len(call.outbound) = 1
        /\ call.outbound[1].provider = call.provider
        /\ call.outbound[1].model =
               (CASE call.provider = "Gemini" -> "gemini-2.0-flash"
                  [] call.provider = "OpenAI" -> "gpt-4o-mini"
                  [] call.provider = "Claude" -> "claude-3-haiku-20240307")

\* C2: after a provider call that fails (missing credential, unknown provider
\* or an exception of the provider client) no field of the active project
\* (genre, target_audience, theme, synopsis, world_setting, characters,
\* chapters) differs from its value before the user action that issued the call.
C2_FailedCallKeepsProject ==
    [][(/\ call'.invoked
        /\ call'.kind \in {"missing", "unknown", "error"}
        /\ Passive(Session, today).S.projects = projects)
       => \A f \in {"genre", "target_audience", "theme", "synopsis",
                    "world_setting", "characters", "chapters"} :
              ActiveProject'[f] = ActiveProject[f]]_vars

\* C3: call_generative_api invoked while the credential it reads for the
\* selected provider is absent or empty returns the missing-credential failure
\* naming that provider, sends no request, and leaves every counter of the
\* usage ledger and the request history unchanged.
C3_MissingCredentialFailure ==
    (/\ call.invoked
     /\ call.provider \in ProviderNames
     /\ Get(call.before.user_api_keys, ProviderKeyId(call.provider), << >>) = << >>)
    => /\ call.kind = "missing"
       /\ call.ret = [text |-> <<ErrorPrefix, ": ", ProviderDisplayName(call.provider),
                                 " API key is not set">>,
                      prompt_tokens |-> 0, response_tokens |-> 0]
       /\ call.outbound = << >>
       /\ call.after.api_usage = call.before.api_usage
       /\ api_usage = call.before.api_usage

\* a missing-credential return on a ledger that already holds a record
C3_Witness ==
    /\ call.invoked
    /\ call.kind = "missing"
    /\ call.before.api_usage.total_requests > 0
    /\ Len(api_usage.request_history) > 0

\* C4: when the provider client raises, call_generative_api neither propagates
\* the exception nor retries: it returns a failure value carrying the
\* stringified cause with prompt_tokens = response_tokens = 0, and
\* daily_requests, daily_tokens_used, total_requests, total_tokens_used and
\* request_history are unchanged.
C4_ProviderExceptionIsValue ==
    (call.invoked /\ call.outbound # << >> /\ call.outcome.raises) =>
        /\ call.kind = "error"
        /\ run.fault = ""
        /\ Len(call.outbound) = 1
        /\ call.ret.text = <<"An error occurred during the API call: ", call.outcome.cause>>
        /\ call.ret.prompt_tokens = 0
        /\ call.ret.response_tokens = 0
        /\ \A f \in {"daily_requests", "daily_tokens_used", "total_requests",
                     "total_tokens_used", "request_history"} :
              /\ call.after.api_usage[f] = call.before.api_usage[f]
              /\ api_usage[f] = call.before.api_usage[f]

\* the provider client raised on a ledger that already holds a record
C4_Witness ==
    /\ call.invoked
    /\ call.kind = "error"
    /\ call.outcome.cause = "timeout"
    /\ call.before.api_usage.total_requests > 0

\* C5: current_call_token_info is overwritten by every invocation of
\* call_generative_api, successful or failed: after a call returns, the summary
\* describes that call (its model, its token counts, its error if it failed)
\* and never an earlier one.
C5_SummaryDescribesLastCall ==
    call.invoked =>
        /\ DOMAIN call.after.current_call_token_info # {}
        /\ call.after.current_call_token_info.model = get_model_name(call.provider)
        /\ call.after.current_call_token_info.prompt_tokens = call.ret.prompt_tokens
        /\ call.after.current_call_token_info.response_tokens = call.ret.response_tokens
        /\ ("error" \in DOMAIN call.after.current_call_token_info) <=> (call.kind # "ok")

\* C6: one user action makes at most one request to a provider, and a
\* successful call_generative_api has exactly these side effects: one request
\* sent, one record added to the usage ledger before it returns, and one
\* overwrite of the last-call summary; projects, credentials and the selection
\* are as before the call.
C6_SuccessSideEffects ==
    /\ Len(call.outbound) <= 1
    /\ call.kind = "ok" =>
         LET b == call.before.api_usage
             a == call.after.api_usage
             rec == [timestamp |-> today, model |-> get_model_name(call.provider),
                     prompt_tokens |-> call.ret.prompt_tokens,
                     response_tokens |-> call.ret.response_tokens,
                     total_tokens |-> call.ret.prompt_tokens + call.ret.response_tokens]
         IN /\ Len(call.outbound) = 1
            /\ a.total_requests = b.total_requests + 1
            /\ a.daily_requests = b.daily_requests + 1
            /\ a.total_tokens_used = b.total_tokens_used + rec.total_tokens
            /\ a.daily_tokens_used = b.daily_tokens_used + rec.total_tokens
            /\ a.last_reset_date = b.last_reset_date
            /\ a.request_history = Append(b.request_history, rec)
            /\ call.after.current_call_token_info =
                   [model |-> rec.model, prompt_tokens |-> rec.prompt_tokens,
                    response_tokens |-> rec.response_tokens,
                    total_tokens |-> rec.total_tokens]
            /\ \A f \in SessionFields \ {"api_usage", "current_call_token_info"} :
                   call.after[f] = call.before[f]

\* a second successful call, answered by OpenAI
C6_Witness ==
    /\ call.kind = "ok"
    /\ call.provider = "OpenAI"
    /\ call.before.api_usage.total_requests = 1
    /\ api_usage.total_requests = 2

\* C9: the token counts recorded in the ledger are, for OpenAI and Claude, the
\* counts the provider's response reports, and for Gemini count_tokens(prompt)
\* and count_tokens(response text); the recorded total of every successful
\* call is prompt tokens plus response tokens.
C9_TokenAccounting ==
    call.kind = "ok" =>
        LET h == call.after.api_usage.request_history
            rec == h[Len(h)]
        IN /\ call.provider \in {"OpenAI", "Claude"} =>
                /\ rec.prompt_tokens = call.outcome.usage_prompt
                /\ rec.response_tokens = call.outcome.usage_completion
           /\ call.provider = "Gemini" =>
                /\ rec.prompt_tokens = count_tokens(call.prompt)
                /\ rec.response_tokens = count_tokens(call.outcome.text)
           /\ rec.total_tokens = rec.prompt_tokens + rec.response_tokens
           /\ rec.model = get_model_name(call.provider)

\* a successful Gemini call whose prompt is longer than 500 characters
C9_Witness ==
    /\ call.kind = "ok"
    /\ call.provider = "Gemini"
    /\ TextStats(call.prompt).len > 500
    /\ Len(api_usage.request_history) > 0

-----------------------------------------------------------------------------
(* Properties of the usage ledger *)

\* C7: from the empty ledger, N calls of log_api_usage raise total_requests by
\* exactly N and leave min(N, 100) records in request_history, the most recent
\* ones in insertion order (the n-th record logged carries n prompt tokens);
\* the history never holds more than 100 records.
C7_LedgerCountsAndCap ==
    /\ [](LET h == api_usage.request_history
              n == api_usage.total_requests
          IN /\ Len(h) = Min(n, 100)
             /\ Len(h) <= 100
             /\ \A i \in 1..Len(h) : h[i].prompt_tokens = n - Len(h) + i)
    /\ [][run'.event = "log_api_usage" =>
            api_usage'.total_requests = api_usage.total_requests + 1]_vars

\* 103 records were logged: the history holds the records 4 to 103
C7_Witness ==
    /\ api_usage.total_requests = 103
    /\ Len(api_usage.request_history) = 100
    /\ api_usage.request_history[1].prompt_tokens = 4
    /\ api_usage.request_history[100].prompt_tokens = 103

\* C8: the daily reset changes nothing when it runs again on the same date;
\* on the first run after the date changed it sets daily_requests and
\* daily_tokens_used to 0 and last_reset_date to the new date and leaves
\* total_requests, total_tokens_used and request_history unchanged.
C8_DailyResetSelective ==
    [][run'.event = "rerun" =>
         IF api_usage.last_reset_date = today
         THEN api_usage' = api_usage
         ELSE /\ api_usage'.daily_requests = 0
              /\ api_usage'.daily_tokens_used = 0
              /\ api_usage'.last_reset_date = today
              /\ api_usage'.total_requests = api_usage.total_requests
              /\ api_usage'.total_tokens_used = api_usage.total_tokens_used
              /\ api_usage'.request_history = api_usage.request_history]_vars

\* a script run on the day after a call was recorded: the daily counters are
\* zero and the lifetime counters are kept
C8_Witness ==
    /\ run.event = "rerun"
    /\ today = 1
    /\ api_usage.last_reset_date = 1
    /\ api_usage.daily_requests = 0
    /\ api_usage.daily_tokens_used = 0
    /\ api_usage.total_requests > 0
    /\ api_usage.total_tokens_used > 0
    /\ api_usage.request_history[1].timestamp = 0

-----------------------------------------------------------------------------
(* Properties of the project store *)

\* C10: an import that fails (the uploaded document is malformed JSON, or valid
\* JSON that is no mapping from project name to project) reports an error and
\* leaves the project mapping exactly as it was before the import.
C10_FailedImportKeepsProjects ==
    [][(/\ run'.event = "import"
        /\ run'.message \in {"error: invalid JSON file", "error: import error"}
        /\ Passive(Session, today).S.projects = projects)
       => projects' = projects]_vars

\* C11: in every reachable state every project in the store has all of its
\* fields: genre, target_audience, theme, synopsis, world_setting and the maps
\* characters, chapters and glossary.
C11_ProjectsHaveAllFields ==
    \A n \in KeySet(projects) :
        IsDict(projects.val[n]) =>
            {"genre", "target_audience", "theme", "synopsis", "world_setting",
             "characters", "chapters", "glossary"} \subseteq DOMAIN projects.val[n]

C13_ImportMerges ==
    [][(/\ run'.event = "import"
        /\ run'.message = "success"
        /\ Passive(Session, today).S.projects = projects)
       => LET items == uploaded_file'.doc.items
              names == {items[i].k : i \in 1..Len(items)}
              Imported(n) == items[CHOOSE i \in 1..Len(items) : items[i].k = n].v
              WithGlossary(v) == IF "glossary" \in DOMAIN v THEN v
                                 ELSE [f \in DOMAIN v \cup {"glossary"} |->
                                          IF f = "glossary" THEN EmptyDict ELSE v[f]]
              merged == [keys |-> projects.keys
                                  \o SelectSeq([i \in 1..Len(items) |-> items[i].k],
                                               LAMBDA k : k \notin KeySet(projects)),
                         val |-> [n \in KeySet(projects) \cup names |->
                                    IF n \in names THEN WithGlossary(Imported(n))
                                    ELSE projects.val[n]]]
          IN /\ \A n \in KeySet(projects) \ names : projects'.val[n] = projects.val[n]
             /\ \A n \in KeySet(projects') : "glossary" \in DOMAIN projects'.val[n]
             /\ projects' = Passive([Passive(Session, today).S EXCEPT !.projects = merged],
                                    today).S.projects]_vars

\* a project without a glossary was imported under the name of a stored
\* project and replaced it
C13_Witness ==
    /\ run.event = "import"
    /\ run.message = "success"
    /\ uploaded_file.doc.items = <<Pair("p1", ImportedProject)>>
    /\ "p1" \in uploaded_file.names
    /\ "p2" \in KeySet(projects)
    /\ projects.val["p1"].created_at = ImportedProject.created_at
    /\ projects.val["p1"].glossary = EmptyDict

C15_CreatedAtImmutable ==
    [][\A n \in KeySet(projects) \cap KeySet(projects') :
          (IsDict(projects.val[n]) /\ "created_at" \in DOMAIN projects.val[n])
          => /\ IsDict(projects'.val[n])
             /\ "created_at" \in DOMAIN projects'.val[n]
             /\ projects'.val[n].created_at = projects.val[n].created_at]_vars

\* C16: an empty project name or an empty character name is never accepted,
\* so the store holds no project under the empty name and no project holds
\* a character under the empty name.
C16_NoEmptyName ==
    /\ "" \notin KeySet(projects)
    /\ \A k \in KeySet(projects) :
         IsDict(projects.val[k])
           => "" \notin DOMAIN Get(projects.val[k], "characters", EmptyDict)

C18_NoUncaughtFault == run.fault = ""

-----------------------------------------------------------------------------
(* The quality indicator of tab 1 *)

\* the synopsis of the active project
ActiveSynopsis == Get(ActiveProject, "synopsis", << >>)

\* a script run over this state reaches the quality indicator, which is
\* shown for a non-empty synopsis
ScoreShown ==
    /\ logged_in
    /\ HasProject(Session)
    /\ current_project \in KeySet(projects)
    /\ Truthy(ActiveSynopsis)
    /\ Reaches(Passive(Session, today), AtTab1)

\* synopsis_score of that run
synopsis_score == analyze_synopsis_quality(ActiveSynopsis)

\* C19: analyze_synopsis_quality is a pure function of its text.  Whenever
\* the score is shown it is an integer from 0 to 100; two runs that score the
\* same synopsis show the same score; and a run that only displays the page,
\* the score included, leaves the session state as it was.
C19_ScorePure ==
    /\ [](ScoreShown => synopsis_score \in 0..100)
    /\ [][/\ (ActiveSynopsis' = ActiveSynopsis) => (synopsis_score' = synopsis_score)
          /\ (ScoreShown /\ run.fault = "" /\ run'.event = "rerun")
               => (Session' = Session)]_vars

\* the score of a synopsis whose points exceed 100 was shown by a run that
\* only displays the page
C19_Witness ==
    /\ ScoreShown
    /\ run.event = "rerun"
    /\ run.fault = ""
    /\ SynopsisPoints(ActiveSynopsis) = 120
    /\ synopsis_score = 100

\* C20: a synopsis of exactly 300 characters that holds "shikashi" and no
\* other engaging word, the full-width question mark and no other mark, the
\* genre word "dragon", and 4 non-empty sentences scores 80.
C20_ExampleScores80 ==
    (/\ ScoreShown
     /\ SynopsisLen(ActiveSynopsis) = 300
     /\ \A i \in 1..Len(engaging_words) :
          Contains(ActiveSynopsis, engaging_words[i]) <=> engaging_words[i] = "shikashi"
     /\ Contains(ActiveSynopsis, "FW?")
     /\ ~Contains(ActiveSynopsis, "?")
     /\ ~Contains(ActiveSynopsis, "FW!")
     /\ Contains(ActiveSynopsis, "dragon")
     /\ CountSentences(ActiveSynopsis, FALSE) = 4)
    => synopsis_score = 80

\* the number of occurrences of a word in a synopsis
Occurrences(synopsis, word) ==
    Cardinality({i \in 1..Len(synopsis) : synopsis[i] = word})

RECURSIVE OccurrencesOfFirst(_, _)
OccurrencesOfFirst(synopsis, k) ==
    IF k = 0 THEN 0
    ELSE Occurrences(synopsis, engaging_words[k]) + OccurrencesOfFirst(synopsis, k - 1)

\* C21: the connector contribution to the score counts occurrences: it is
\* 5 times the number of occurrences of the 9 connector words in the
\* synopsis, summed over the words.
C21_ConnectorsCountOccurrences ==
    ScoreShown =>
        ConnectorPoints(ActiveSynopsis)
            = 5 * OccurrencesOfFirst(ActiveSynopsis, Len(engaging_words))

\* C22: count_tokens returns an integer of at least 1 for every text, and a
\* text lengthened by characters of the class of its last character counts
\* at least as many tokens as before, also across the 500 characters above
\* which len(text) // 10 is added.
C22_TokensMonotonic ==
    /\ counted.tokens \in Nat \ {0}
    /\ counted.shorter \in Nat \ {0}
    /\ counted.same_class => counted.shorter <= counted.tokens

\* a text of 500 characters was lengthened beyond the threshold by characters
\* of the same class, and the addition of len(text) // 10 shows in its count
C22_Witness ==
    /\ counted.same_class
    /\ RunStats(counted.text, FALSE).len = 505
    /\ counted.text[Len(counted.text)].class = "kana"
    /\ counted.tokens = counted.shorter + 7 + 50

\* the last script run entered generate_ai_content
GenerationEntered ==
    /\ run.event \in {"synopsis", "world_setting", "full_story", "chapter"}
    /\ run.message = ""
    /\ current_project \in KeySet(projects)

\* C23: when generate_ai_content builds base_info, a field of the project
\* that is unset, be it missing or the empty default of a new project, is
\* interpolated as the placeholder and never as an empty value.
C23_UnsetFieldsShowPlaceholder ==
    GenerationEntered =>
        \A field \in {"genre", "target_audience"} :
            ~Truthy(Get(ActiveProject, field, << >>))
                => BaseInfo(ActiveProject)[field] = NotSet

\* the last script run added a character in AI mode and the provider call
\* returned a generated text
AiCharacterGenerated ==
    /\ run.event = "add_character"
    /\ call.invoked
    /\ call.kind = "ok"
    /\ ~StartsWith(call.ret.text, ErrorPrefix)

\* C24: after an add-character action in AI mode whose provider call
\* succeeds, the character map of the active project holds the new name with
\* the chosen role and the generated text as its details.
C24_AiCharacterStored ==
    AiCharacterGenerated =>
        /\ current_project \in KeySet(projects)
        /\ call.prompt[2] \in DOMAIN ActiveProject.characters
        /\ ActiveProject.characters[call.prompt[2]]
             = [role |-> call.prompt[3], details |-> call.ret.text]

\* C25: an AI action that shows the message about the missing API key makes
\* no provider call and leaves the projects as the script run found them,
\* the character map and the stored chapter parameters included.
C25_MissingKeyLeavesProject ==
    [][run'.message = ApiKeyMessage
         => /\ ~call'.invoked
            /\ projects' = Passive(Session, today).S.projects]_vars

\* C26: a pending edit is applied only to the project that was active when
\* it was created: accepting the proposed synopsis changes the synopsis of
\* no other project, whatever project switches and deletions came between.
C26_PendingEditStaysWithProject ==
    [][run'.event = "accept_synopsis"
         => \A k \in KeySet(projects) \cap KeySet(projects') :
                Get(projects'.val[k], "synopsis", << >>)
                    # Get(projects.val[k], "synopsis", << >>)
                  => k = pending_for]_vars

\* the chapter labels of the active project
ChapterLabels == DOMAIN Get(ActiveProject, "chapters", EmptyDict)

ActiveGlossary == Get(ActiveProject, "glossary", EmptyDict)

\* C28: a glossary term can be deleted: after a click on the delete button
\* of a term and a click on the confirm button that it reveals, the term is
\* no longer in the glossary of the active project.
C28_TermDeleted ==
    [][\A term_name \in GlossaryTermNames :
          (/\ run.message = ConfirmLabel(term_name)
           /\ run'.event = "confirm_delete_glossary_term")
            => term_name \notin DOMAIN ActiveGlossary']_vars

\* C29: whenever a script run reads the active project, in the glossary
\* sidebar or in the main content, current_project is None or the name of a
\* stored project; every script run leaves the session in such a state,
\* whatever projects were created, selected, deleted or imported.
C29_CurrentProjectValid ==
    /\ current_project = None \/ current_project \in KeySet(projects)
    /\ \A s \in {SidebarState(Session, today)} :
          HasProject(s) => s.current_project \in KeySet(s.projects)

\* after an import, the last project was deleted and the store is empty
C29_Witness ==
    /\ run.event = "delete_project"
    /\ run.message = "success"
    /\ projects.keys = << >>
    /\ current_project = None
    /\ uploaded_file.doc.kind = "object"

\* the sum of total_tokens over a request history
RECURSIVE SumTotalTokens(_)
SumTotalTokens(history) ==
    IF history = << >> THEN 0
    ELSE Head(history).total_tokens + SumTotalTokens(Tail(history))

\* C30: the usage ledger is consistent in every reachable state: the daily
\* counters do not exceed the lifetime counters, the lifetime counters never
\* decrease, every history record has total_tokens = prompt_tokens +
\* response_tokens, and while fewer than 100 calls have been recorded
\* total_tokens_used is the sum of total_tokens over request_history.
C30_LedgerConsistent ==
    /\ [](/\ api_usage.daily_requests <= api_usage.total_requests
          /\ api_usage.daily_tokens_used <= api_usage.total_tokens_used
          /\ \A i \in 1..Len(api_usage.request_history) :
                api_usage.request_history[i].total_tokens
                    = api_usage.request_history[i].prompt_tokens
                        + api_usage.request_history[i].response_tokens
          /\ (api_usage.total_requests < HistoryCap)
                => (api_usage.total_tokens_used
                        = SumTotalTokens(api_usage.request_history)))
    /\ [][/\ api_usage'.total_requests >= api_usage.total_requests
          /\ api_usage'.total_tokens_used >= api_usage.total_tokens_used]_vars

\* 99 calls are recorded, and the daily counters were reset after some of
\* them
C30_Witness ==
    /\ api_usage.total_requests = 99
    /\ Len(api_usage.request_history) = 99
    /\ api_usage.last_reset_date = 1
    /\ 0 < api_usage.daily_requests
    /\ api_usage.daily_requests < api_usage.total_requests
    /\ api_usage.daily_tokens_used < api_usage.total_tokens_used

====
